---- MODULE Spec2Model ----
(***************************************************************************)
(* Model of the nrf24-time-client sketch (src/nrf24-time-client.ino, the   *)
(* variant starting at line 473): setup() configures the radio, calls      *)
(* nrf24_receive_date_time(), which polls nrf24_receive(1000) until        *)
(* rtc_set_time_from_payload() accepts a payload and writes the RTC.       *)
(*                                                                         *)
(* Target: Arduino Nano (AVR): int is 16 bits, unsigned long and time_t    *)
(* are 32 bits.  A 32-bit unsigned value is kept as a pair <<hi, lo>> of   *)
(* 16-bit limbs, so that the arithmetic keeps its real width.              *)
(***************************************************************************)
EXTENDS Integers, Sequences, FiniteSets, TLC

VARIABLES
  pc,          \* position of the single control thread
  listening,   \* radio mode: TRUE between startListening and stopListening
  payload,     \* byte payload[32]
  last_sync,   \* time_t last_sync
  rtc,         \* the time held by the RTC (last value given to RTC.set)
  count,       \* unsigned int count of nrf24_receive_date_time
  started,     \* unsigned long started of nrf24_receive
  timed_out,   \* boolean timed_out of nrf24_receive
  result,      \* boolean result of nrf24_receive (its return value)
  millis,      \* the value millis() returned last inside nrf24_receive
  tm,          \* tmElements_t tm of rtc_set_time_from_payload
  rtc_result,  \* time_t result of rtc_set_time_from_payload
  dt,          \* time_t dt of loop()
  \* history variables, not read by the program
  elapsed,     \* ms really elapsed since started was taken
  avail_seen,  \* radio.available() returned true in this nrf24_receive
  reads,       \* radio.read calls in this nrf24_receive
  rtc_sets,    \* RTC.set calls so far
  timeouts,    \* attempts that timed out (saturating at MaxHist)
  rejects,     \* attempts rejected by the signature check (saturating)
  rtc_before,  \* rtc when the current attempt started
  sets_before, \* rtc_sets when the current attempt started
  buf_before,  \* payload when the current nrf24_receive started
  delayed,     \* ms spent in delay() since the last stopListening
  failures,    \* failed attempts of nrf24_receive_date_time, modulo FailMod
  flushed,     \* the last count step printed the newline of line 692
  fields       \* the date/time a sender encoded (codec runs only)

vars == <<pc, listening, payload, last_sync, rtc, count, started, timed_out,
          result, millis, tm, rtc_result, dt, elapsed, avail_seen, reads,
          rtc_sets, timeouts, rejects, rtc_before, sets_before, buf_before,
          delayed, failures, flushed, fields>>

----------------------------------------------------------------------------
(* Bounds of the model *)

MinStep == 250    \* shortest time between two millis() readings of the wait
MaxStep == 251    \* longest time between two millis() readings of the wait
MaxHist == 2      \* the history counters saturate here (0, 1, many)

(* Program constants *)

PollTimeout == 1000     \* nrf24_receive(1000)
PayloadSize == 32       \* sizeof(payload)
FlushEvery == 30        \* if (count == 30)

(* failures is kept modulo two flush periods *)
FailMod == 2 * FlushEvery

(* the base of the 16-bit limbs of an unsigned long *)
W16 == 256 * 256

----------------------------------------------------------------------------
(* 32-bit unsigned arithmetic on <<hi, lo>> limbs *)

U32(n) == <<(n \div W16) % W16, n % W16>>

Add32(a, b) ==
  LET lo == a[2] + b[2]
      hi == a[1] + b[1] + (lo \div W16)
  IN  <<hi % W16, lo % W16>>

Sub32(a, b) ==
  LET lo == a[2] - b[2]
      hi == a[1] - b[1] - (IF lo < 0 THEN 1 ELSE 0)
  IN  <<hi % W16, lo % W16>>

Gt32(a, b) == a[1] > b[1] \/ (a[1] = b[1] /\ a[2] > b[2])

(* the comparison on absolute counter values: millis() > started + timeout *)
TimeoutPassedAbs(now, start, timeout) == Gt32(now, Add32(start, U32(timeout)))

(* line 645: millis() - started > timeout, timeout converted to unsigned long *)
TimeoutPassed(now, start, timeout) == Gt32(Sub32(now, start), U32(timeout))

----------------------------------------------------------------------------
(* Payloads *)

Signature == <<254, 84, 73, 77, 69>>     \* 0xfe "TIME"

(* the first bytes of a payload, zero-filled to sizeof(payload) *)
Pad(s) == [i \in 1..PayloadSize |-> IF i <= Len(s) THEN s[i] ELSE 0]

ZeroPayload == Pad(<<>>)

(* year 2020 = 0x07E4 sent low byte first, July 24th 10:30:00, weekday 3 *)
ValidPacket == Pad(Signature \o <<228, 7, 7, 24, 10, 30, 0, 3>>)

(* the payload of the decoding example: year bytes 0x32, 0x00 *)
OffsetPacket == Pad(Signature \o <<50, 0, 7, 24, 10, 30, 0, 3>>)

(* a valid signature followed by Month = 13 *)
Month13Packet == Pad(Signature \o <<228, 7, 13, 24, 10, 30, 0, 3>>)

(* ValidPacket with the lowest bit of signature byte i flipped *)
FlipBit(b) == IF b % 2 = 0 THEN b + 1 ELSE b - 1

BadSigPacket(i) == [ValidPacket EXCEPT ![i] = FlipBit(ValidPacket[i])]

(* a payload of the older 10-byte format: "tim", year 2023 high byte first *)
OldFormatPacket == Pad(<<116, 105, 109, 7, 231, 7, 24, 10, 30, 0>>)

ValidPackets == {ValidPacket, OffsetPacket, Month13Packet}

ForeignPackets ==
  {BadSigPacket(i) : i \in 1..Len(Signature)} \cup {OldFormatPacket, ZeroPayload}

(* what radio.read can deliver *)
AirPackets == ValidPackets \cup ForeignPackets

----------------------------------------------------------------------------
(* rtc_set_time_from_payload: signature check and field extraction *)

(* a signature check that leaves out the last byte *)
SignatureOKShort(p) ==
  p[1] = 254 /\ p[2] = 84 /\ p[3] = 73 /\ p[4] = 77

(* line 721; payload[k] of the source is p[k + 1] *)
SignatureOK(p) ==
  p[1] = 254 /\ p[2] = 84 /\ p[3] = 73 /\ p[4] = 77 /\ p[5] = 69

(* the year difference clamped, not truncated, to the 8 bits of tm.Year *)
YearFieldClamped(p) ==
  LET v == ((p[7] * 256 + p[6]) % W16) - 1970
  IN  IF v < 0 THEN 0 ELSE IF v > 255 THEN 255 ELSE v

(* the year read high byte first *)
YearFieldBigEndian(p) == (((p[6] * 256 + p[7]) % W16) - 1970) % 256

(* (payload[6] << 8 | payload[5]) - 1970 in 16-bit int, stored into the
   uint8_t field tm.Year *)
YearField(p) == (((p[7] * 256 + p[6]) % W16) - 1970) % 256

(* the extraction with Minute and Second taken from each other's byte *)
ExtractTmSwapped(p) ==
  [Year   |-> YearField(p),
   Month  |-> p[8],
   Day    |-> p[9],
   Hour   |-> p[10],
   Minute |-> p[12],
   Second |-> p[11],
   Wday   |-> (p[13] % 7) + 1]

(* the extraction with a weekday counted from 0 *)
ExtractTmWday0(p) ==
  [Year   |-> YearField(p),
   Month  |-> p[8],
   Day    |-> p[9],
   Hour   |-> p[10],
   Minute |-> p[11],
   Second |-> p[12],
   Wday   |-> p[13] % 7]

(* the extraction with Second read one byte too far, from payload[12] *)
ExtractTmShifted(p) ==
  [Year   |-> YearField(p),
   Month  |-> p[8],
   Day    |-> p[9],
   Hour   |-> p[10],
   Minute |-> p[11],
   Second |-> p[13],
   Wday   |-> (p[13] % 7) + 1]

(* lines 725-731 *)
ExtractTm(p) ==
  [Year   |-> YearField(p),
   Month  |-> p[8],
   Day    |-> p[9],
   Hour   |-> p[10],
   Minute |-> p[11],
   Second |-> p[12],
   Wday   |-> (p[13] % 7) + 1]

(* TimeLib: LEAP_YEAR(Y), Y counted from 1970 *)
LEAP_YEAR(Y) ==
  LET y == 1970 + Y
  IN  y > 0 /\ y % 4 = 0 /\ (y % 100 # 0 \/ y % 400 = 0)

monthDays == <<31, 28, 31, 30, 31, 30, 31, 31, 30, 31, 30, 31>>

(* TimeLib makeTime: one leap day for every i in 0 .. tm.Year - 1 with
   LEAP_YEAR(i) *)
LeapDaysBefore(Y) == Cardinality({i \in 0..(Y - 1) : LEAP_YEAR(i)})

(* TimeLib makeTime: the days of the months 1 .. M-1 of year Y *)
RECURSIVE DaysBeforeMonth(_, _)
DaysBeforeMonth(Y, M) ==
  IF M <= 1 THEN 0
  ELSE DaysBeforeMonth(Y, M - 1)
       + (IF M - 1 = 2 /\ LEAP_YEAR(Y) THEN 29 ELSE monthDays[M - 1])

(* d * SECS_PER_DAY in 32 bits: 86400 = 675 * 128 *)
DaysToSeconds(d) ==
  LET x == d * 675
  IN  <<(x \div 512) % W16, (x % 512) * 128>>

(* TimeLib makeTime(tm), a uint32_t sum; (tm.Day - 1) is -1 for Day = 0 and
   is then subtracted modulo 2^32.  Defined for tm.Month <= 13: a larger
   month reads past the end of monthDays. *)
makeTime(t) ==
  LET days == t.Year * 365 + LeapDaysBefore(t.Year)
              + DaysBeforeMonth(t.Year, t.Month)
      secs == t.Hour * 3600 + t.Minute * 60 + t.Second
      base == Add32(DaysToSeconds(days), U32(secs))
  IN  IF t.Day >= 1
        THEN Add32(base, DaysToSeconds(t.Day - 1))
        ELSE Sub32(base, DaysToSeconds(1))

NoTm == [Year |-> -1, Month |-> -1, Day |-> -1, Hour |-> -1, Minute |-> -1,
         Second |-> -1, Wday |-> -1]

NoTime == <<-1, -1>>

(* no sender modelled: the payloads come from AirPackets *)
NoFields == [Year |-> -1, Month |-> -1, Day |-> -1, Hour |-> -1,
             Minute |-> -1, Second |-> -1]

(* the time the RTC holds before the sketch sets it: 2000-01-01 00:00:00 *)
InitialRtc == U32(946684800)

(* flash_led with only the time the LED is on counted *)
flash_led_on_only(n, onms, offms) == IF n <= 0 THEN 0 ELSE n * onms

(* flash_led(pin, count, onms, offms): the time its delays take *)
RECURSIVE flash_led(_, _, _)
flash_led(n, onms, offms) ==
  IF n <= 0 THEN 0 ELSE onms + offms + flash_led(n - 1, onms, offms)

Sat(n) == IF n < MaxHist THEN n + 1 ELSE MaxHist

----------------------------------------------------------------------------
(* The state after construction: globals zero-initialised, setup() not yet
   past its first lines. *)

Init ==
  /\ pc = "setup"
  /\ listening = FALSE
  /\ payload = ZeroPayload
  /\ last_sync = U32(0)
  /\ rtc = InitialRtc
  /\ count = 0
  /\ started = U32(0)
  /\ timed_out = FALSE
  /\ result = FALSE
  /\ millis = U32(0)
  /\ tm = NoTm
  /\ rtc_result = NoTime
  /\ dt = NoTime
  /\ elapsed = 0
  /\ avail_seen = FALSE
  /\ reads = 0
  /\ rtc_sets = 0
  /\ timeouts = 0
  /\ rejects = 0
  /\ rtc_before = InitialRtc
  /\ sets_before = 0
  /\ buf_before = ZeroPayload
  /\ delayed = 0
  /\ failures = 0
  /\ flushed = FALSE
  /\ fields = NoFields

(* the values millis() can have when nrf24_receive takes started: far from
   the wrap, and so close to it that the counter wraps during the wait *)
StartValues ==
  {U32(0),
   <<W16 - 1, W16 - 1>>,
   Sub32(U32(0), U32(MinStep)),
   Sub32(U32(0), U32(PollTimeout)),
   Sub32(U32(0), U32(PollTimeout + 1))}

recv_locals == <<started, timed_out, millis, elapsed, avail_seen, reads,
                 buf_before>>
decode_locals == <<tm, rtc_result>>
hist == <<timeouts, rejects>>
flush_hist == <<failures, flushed>>

----------------------------------------------------------------------------
(* setup(), lines 562-589 *)

(* lines 565-580: nrf24_setup() ends with radio.stopListening() *)
nrf24_setup ==
  /\ pc = "setup"
  /\ listening' = FALSE
  /\ pc' = "call_sync"
  /\ UNCHANGED <<payload, last_sync, rtc, count, result, dt, rtc_sets,
                 rtc_before, sets_before, delayed>>
  /\ UNCHANGED <<recv_locals, decode_locals, hist>>
  /\ UNCHANGED <<flush_hist, fields>>

(* line 584 and line 667: the call, unsigned int count = 0 *)
nrf24_receive_date_time_enter ==
  /\ pc = "call_sync"
  /\ count' = 0
  /\ pc' = "loop_top"
  /\ UNCHANGED <<listening, payload, last_sync, rtc, result, dt, rtc_sets,
                 rtc_before, sets_before, delayed>>
  /\ UNCHANGED <<recv_locals, decode_locals, hist>>
  /\ UNCHANGED <<flush_hist, fields>>

----------------------------------------------------------------------------
(* nrf24_receive(1000), lines 632-663 *)

(* lines 638-642: startListening, timed_out = false, started = millis() *)
nrf24_receive_start ==
  /\ pc = "loop_top"
  /\ listening' = TRUE
  /\ timed_out' = FALSE
  /\ \E now \in StartValues : started' = now /\ millis' = now
  /\ elapsed' = 0
  /\ avail_seen' = FALSE
  /\ reads' = 0
  /\ buf_before' = payload
  /\ rtc_before' = rtc
  /\ sets_before' = rtc_sets
  /\ pc' = "polling"
  /\ UNCHANGED <<payload, last_sync, rtc, count, result, dt, rtc_sets,
                 delayed>>
  /\ UNCHANGED <<decode_locals, hist>>
  /\ UNCHANGED <<flush_hist, fields>>

(* line 643: radio.available() is true, the loop ends *)
nrf24_receive_available ==
  /\ pc = "polling"
  /\ avail_seen' = TRUE
  /\ pc' = "waited"
  /\ UNCHANGED <<listening, payload, last_sync, rtc, count, result, dt,
                 rtc_sets, rtc_before, sets_before, delayed, started,
                 timed_out, millis, elapsed, reads, buf_before>>
  /\ UNCHANGED <<decode_locals, hist>>
  /\ UNCHANGED <<flush_hist, fields>>

(* the wait with the timeout tested on the counter value read one
   iteration earlier *)
nrf24_receive_wait_stale(d) ==
  /\ pc = "polling"
  /\ millis' = Add32(millis, U32(d))
  /\ elapsed' = elapsed + d
  /\ IF TimeoutPassed(millis, started, PollTimeout)
       THEN timed_out' = TRUE /\ pc' = "waited"
       ELSE timed_out' = timed_out /\ pc' = "polling"
  /\ UNCHANGED <<listening, payload, last_sync, rtc, count, result, dt,
                 rtc_sets, rtc_before, sets_before, delayed, started,
                 avail_seen, reads, buf_before>>
  /\ UNCHANGED <<decode_locals, hist>>
  /\ UNCHANGED <<flush_hist, fields>>

(* lines 643-649: radio.available() is false; millis() has advanced by d *)
nrf24_receive_wait(d) ==
  /\ pc = "polling"
  /\ millis' = Add32(millis, U32(d))
  /\ elapsed' = elapsed + d
  /\ IF TimeoutPassed(millis', started, PollTimeout)
       THEN timed_out' = TRUE /\ pc' = "waited"
       ELSE timed_out' = timed_out /\ pc' = "polling"
  /\ UNCHANGED <<listening, payload, last_sync, rtc, count, result, dt,
                 rtc_sets, rtc_before, sets_before, delayed, started,
                 avail_seen, reads, buf_before>>
  /\ UNCHANGED <<decode_locals, hist>>
  /\ UNCHANGED <<flush_hist, fields>>

(* nrf24_receive reading the payload without looking at timed_out *)
nrf24_receive_read_always ==
  /\ pc = "waited"
  /\ \E p \in AirPackets : payload' = p
  /\ reads' = reads + 1
  /\ result' = TRUE
  /\ started' = U32(0)
  /\ millis' = U32(0)
  /\ elapsed' = 0
  /\ pc' = "stop"
  /\ UNCHANGED <<listening, last_sync, rtc, count, dt, rtc_sets, rtc_before,
                 sets_before, delayed, timed_out, avail_seen, buf_before>>
  /\ UNCHANGED <<decode_locals, hist>>
  /\ UNCHANGED <<flush_hist, fields>>

(* nrf24_receive with stopListening moved in front of the read *)
nrf24_receive_read_stopped ==
  /\ pc = "waited"
  /\ listening' = FALSE
  /\ IF ~timed_out
       THEN /\ \E p \in AirPackets : payload' = p
            /\ reads' = reads + 1
            /\ result' = TRUE
       ELSE /\ payload' = payload
            /\ reads' = reads
            /\ result' = FALSE
  /\ started' = U32(0)
  /\ millis' = U32(0)
  /\ elapsed' = 0
  /\ pc' = "stop"
  /\ UNCHANGED <<last_sync, rtc, count, dt, rtc_sets, rtc_before,
                 sets_before, delayed, timed_out, avail_seen, buf_before>>
  /\ UNCHANGED <<decode_locals, hist>>
  /\ UNCHANGED <<flush_hist, fields>>

(* lines 652-659: read the payload unless timed out; started and the
   counter value are not used after the wait *)
nrf24_receive_read ==
  /\ pc = "waited"
  /\ IF ~timed_out
       THEN /\ \E p \in AirPackets : payload' = p
            /\ reads' = reads + 1
            /\ result' = TRUE
       ELSE /\ payload' = payload
            /\ reads' = reads
            /\ result' = FALSE
  /\ started' = U32(0)
  /\ millis' = U32(0)
  /\ elapsed' = 0
  /\ pc' = "stop"
  /\ UNCHANGED <<listening, last_sync, rtc, count, dt, rtc_sets, rtc_before,
                 sets_before, delayed, timed_out, avail_seen, buf_before>>
  /\ UNCHANGED <<decode_locals, hist>>
  /\ UNCHANGED <<flush_hist, fields>>

(* nrf24_receive with a return inside the timeout branch: stopListening is
   reached only after a read *)
nrf24_receive_return_early ==
  /\ pc = "stop"
  /\ listening' = (IF result THEN FALSE ELSE listening)
  /\ delayed' = 0
  /\ pc' = IF result THEN "decode" ELSE "timeout"
  /\ timeouts' = IF result THEN timeouts ELSE Sat(timeouts)
  /\ result' = FALSE
  /\ timed_out' = FALSE
  /\ avail_seen' = FALSE
  /\ reads' = 0
  /\ buf_before' = ZeroPayload
  /\ UNCHANGED <<payload, last_sync, rtc, count, dt, rtc_sets, rtc_before,
                 sets_before, rejects, started, millis, elapsed>>
  /\ UNCHANGED decode_locals
  /\ UNCHANGED <<flush_hist, fields>>

(* nrf24_receive returning true whether or not a payload was read *)
nrf24_receive_return_true ==
  /\ pc = "stop"
  /\ listening' = FALSE
  /\ delayed' = 0
  /\ pc' = "decode"
  /\ timeouts' = IF result THEN timeouts ELSE Sat(timeouts)
  /\ result' = FALSE
  /\ timed_out' = FALSE
  /\ avail_seen' = FALSE
  /\ reads' = 0
  /\ buf_before' = ZeroPayload
  /\ UNCHANGED <<payload, last_sync, rtc, count, dt, rtc_sets, rtc_before,
                 sets_before, rejects, started, millis, elapsed>>
  /\ UNCHANGED decode_locals
  /\ UNCHANGED <<flush_hist, fields>>

(* lines 661-662 and the if of line 671: stopListening, return result; the
   locals of the call end here and the if consumes the returned value *)
nrf24_receive_return ==
  /\ pc = "stop"
  /\ listening' = FALSE
  /\ delayed' = 0
  /\ pc' = IF result THEN "decode" ELSE "timeout"
  /\ timeouts' = IF result THEN timeouts ELSE Sat(timeouts)
  /\ result' = FALSE
  /\ timed_out' = FALSE
  /\ avail_seen' = FALSE
  /\ reads' = 0
  /\ buf_before' = ZeroPayload
  /\ UNCHANGED <<payload, last_sync, rtc, count, dt, rtc_sets, rtc_before,
                 sets_before, rejects, started, millis, elapsed>>
  /\ UNCHANGED decode_locals
  /\ UNCHANGED <<flush_hist, fields>>

----------------------------------------------------------------------------
(* rtc_set_time_from_payload(), lines 714-745 *)

(* rtc_set_time_from_payload returning true before RTC.set(result) *)
rtc_set_time_from_payload_check_returns ==
  /\ pc = "decode"
  /\ IF SignatureOK(payload)
       THEN /\ tm' = ExtractTm(payload)
            /\ rtc_result' = makeTime(tm')
            /\ pc' = "accepted"
       ELSE /\ UNCHANGED <<tm, rtc_result>>
            /\ pc' = "rejected"
  /\ UNCHANGED <<listening, payload, last_sync, rtc, count, result, dt,
                 rtc_sets, rtc_before, sets_before, delayed>>
  /\ UNCHANGED <<recv_locals, hist>>
  /\ UNCHANGED <<flush_hist, fields>>

(* rtc_set_time_from_payload with RTC.set(result) placed after the if: a
   rejected payload still writes the RTC *)
rtc_set_time_from_payload_check_sets ==
  /\ pc = "decode"
  /\ IF SignatureOK(payload)
       THEN /\ tm' = ExtractTm(payload)
            /\ rtc_result' = makeTime(tm')
            /\ pc' = "rtc_set"
            /\ UNCHANGED <<rtc, rtc_sets>>
       ELSE /\ UNCHANGED <<tm, rtc_result>>
            /\ rtc' = U32(0)
            /\ rtc_sets' = rtc_sets + 1
            /\ pc' = "rejected"
  /\ UNCHANGED <<listening, payload, last_sync, count, result, dt,
                 rtc_before, sets_before, delayed>>
  /\ UNCHANGED <<recv_locals, hist>>
  /\ UNCHANGED <<flush_hist, fields>>

(* lines 721-734: the signature check; on a match tm and makeTime(tm) *)
rtc_set_time_from_payload_check ==
  /\ pc = "decode"
  /\ IF SignatureOK(payload)
       THEN /\ tm' = ExtractTm(payload)
            /\ rtc_result' = makeTime(tm')
            /\ pc' = "rtc_set"
       ELSE /\ UNCHANGED <<tm, rtc_result>>
            /\ pc' = "rejected"
  /\ UNCHANGED <<listening, payload, last_sync, rtc, count, result, dt,
                 rtc_sets, rtc_before, sets_before, delayed>>
  /\ UNCHANGED <<recv_locals, hist>>
  /\ UNCHANGED <<flush_hist, fields>>

(* lines 737-739: RTC.set(result); return true *)
rtc_set_time_from_payload_set ==
  /\ pc = "rtc_set"
  /\ rtc' = rtc_result
  /\ rtc_sets' = rtc_sets + 1
  /\ pc' = "accepted"
  /\ UNCHANGED <<listening, payload, last_sync, count, result, dt,
                 rtc_before, sets_before, delayed>>
  /\ UNCHANGED <<recv_locals, decode_locals, hist>>
  /\ UNCHANGED <<flush_hist, fields>>

----------------------------------------------------------------------------
(* the loop of nrf24_receive_date_time(), lines 669-697 *)

(* the loop left on a rejected payload as well *)
nrf24_receive_date_time_rejected_breaks ==
  /\ pc = "rejected"
  /\ delayed' = delayed + flash_led(5, 10, 10)
  /\ rejects' = Sat(rejects)
  /\ pc' = "accepted"
  /\ UNCHANGED <<listening, payload, last_sync, rtc, count, result, dt,
                 rtc_sets, rtc_before, sets_before, timeouts>>
  /\ UNCHANGED <<recv_locals, decode_locals>>
  /\ UNCHANGED <<flush_hist, fields>>

(* a rejection flashed like five timeouts *)
nrf24_receive_date_time_rejected_long_pause ==
  /\ pc = "rejected"
  /\ delayed' = delayed + flash_led(5, 50, 50)
  /\ rejects' = Sat(rejects)
  /\ pc' = "count"
  /\ UNCHANGED <<listening, payload, last_sync, rtc, count, result, dt,
                 rtc_sets, rtc_before, sets_before, timeouts>>
  /\ UNCHANGED <<recv_locals, decode_locals>>
  /\ UNCHANGED <<flush_hist, fields>>

(* lines 678-682: return false; debug('-'); flash_led(PIN_LED, 5, 10, 10) *)
nrf24_receive_date_time_rejected ==
  /\ pc = "rejected"
  /\ delayed' = delayed + flash_led(5, 10, 10)
  /\ rejects' = Sat(rejects)
  /\ pc' = "count"
  /\ UNCHANGED <<listening, payload, last_sync, rtc, count, result, dt,
                 rtc_sets, rtc_before, sets_before, timeouts>>
  /\ UNCHANGED <<recv_locals, decode_locals>>
  /\ UNCHANGED <<flush_hist, fields>>

(* lines 684-688: debug('.'); flash_led(PIN_LED, 1, 50, 50) *)
nrf24_receive_date_time_timeout ==
  /\ pc = "timeout"
  /\ delayed' = delayed + flash_led(1, 50, 50)
  /\ pc' = "count"
  /\ UNCHANGED <<listening, payload, last_sync, rtc, count, result, dt,
                 rtc_sets, rtc_before, sets_before>>
  /\ UNCHANGED <<recv_locals, decode_locals, hist>>
  /\ UNCHANGED <<flush_hist, fields>>

(* a loop that gives up when count reaches 30 *)
nrf24_receive_date_time_count_gives_up ==
  /\ pc = "count"
  /\ count' = IF count + 1 = FlushEvery THEN 0 ELSE count + 1
  /\ pc' = IF count + 1 = FlushEvery THEN "synced" ELSE "loop_top"
  /\ UNCHANGED <<listening, payload, last_sync, rtc, result, dt, rtc_sets,
                 rtc_before, sets_before, delayed>>
  /\ UNCHANGED <<recv_locals, decode_locals, hist>>
  /\ failures' = (failures + 1) % FailMod
  /\ flushed' = (count + 1 = FlushEvery)
  /\ UNCHANGED fields

(* the counter compared with 30 before it is incremented *)
nrf24_receive_date_time_count_late ==
  /\ pc = "count"
  /\ count' = IF count = FlushEvery THEN 0 ELSE count + 1
  /\ pc' = "loop_top"
  /\ UNCHANGED <<listening, payload, last_sync, rtc, result, dt, rtc_sets,
                 rtc_before, sets_before, delayed>>
  /\ UNCHANGED <<recv_locals, decode_locals, hist>>
  /\ failures' = (failures + 1) % FailMod
  /\ flushed' = (count = FlushEvery)
  /\ UNCHANGED fields

(* lines 689-694: count++; at 30 a newline and count = 0 *)
nrf24_receive_date_time_count ==
  /\ pc = "count"
  /\ count' = IF count + 1 = FlushEvery THEN 0 ELSE count + 1
  /\ pc' = "loop_top"
  /\ UNCHANGED <<listening, payload, last_sync, rtc, result, dt, rtc_sets,
                 rtc_before, sets_before, delayed>>
  /\ UNCHANGED <<recv_locals, decode_locals, hist>>
  /\ failures' = (failures + 1) % FailMod
  /\ flushed' = (count + 1 = FlushEvery)
  /\ UNCHANGED fields

(* the loop without the break: an accepted payload is counted like a
   failure *)
nrf24_receive_date_time_return_continues ==
  /\ pc = "accepted"
  /\ pc' = "count"
  /\ UNCHANGED <<listening, payload, last_sync, rtc, count, result, dt,
                 rtc_sets, rtc_before, sets_before, delayed>>
  /\ UNCHANGED <<recv_locals, decode_locals, hist>>
  /\ UNCHANGED <<flush_hist, fields>>

(* lines 673-677 and 696-697: debug('+'); break; debugln(); return *)
nrf24_receive_date_time_return ==
  /\ pc = "accepted"
  /\ pc' = "synced"
  /\ UNCHANGED <<listening, payload, last_sync, rtc, count, result, dt,
                 rtc_sets, rtc_before, sets_before, delayed>>
  /\ UNCHANGED <<recv_locals, decode_locals, hist>>
  /\ UNCHANGED <<flush_hist, fields>>

----------------------------------------------------------------------------
(* lines 585-589: last_sync = RTC.get(); setup() returns *)
setup_last_sync ==
  /\ pc = "synced"
  /\ last_sync' = rtc
  /\ pc' = "loop"
  /\ UNCHANGED <<listening, payload, rtc, count, result, dt, rtc_sets,
                 rtc_before, sets_before, delayed>>
  /\ UNCHANGED <<recv_locals, decode_locals, hist>>
  /\ UNCHANGED <<flush_hist, fields>>

(* a loop() that writes the time it read back to the RTC and takes it as
   the time of the last sync *)
loop_sets_rtc ==
  /\ pc = "loop"
  /\ dt' = rtc
  /\ rtc' = rtc
  /\ rtc_sets' = Sat(rtc_sets)
  /\ last_sync' = rtc
  /\ UNCHANGED <<pc, listening, payload, count, result, rtc_before,
                 sets_before, delayed>>
  /\ UNCHANGED <<recv_locals, decode_locals, hist>>
  /\ UNCHANGED <<flush_hist, fields>>

(* loop(), lines 591-610: dt = RTC.get(), printing, delay(5000) *)
loop ==
  /\ pc = "loop"
  /\ dt' = rtc
  /\ UNCHANGED <<pc, listening, payload, last_sync, rtc, count, result,
                 rtc_sets, rtc_before, sets_before, delayed>>
  /\ UNCHANGED <<recv_locals, decode_locals, hist>>
  /\ UNCHANGED <<flush_hist, fields>>

----------------------------------------------------------------------------
Steps == MinStep..MaxStep

nrf24_receive_tick == \E d \in Steps : nrf24_receive_wait(d)

Next ==
  \/ nrf24_setup
  \/ nrf24_receive_date_time_enter
  \/ nrf24_receive_start
  \/ nrf24_receive_available
  \/ nrf24_receive_tick
  \/ nrf24_receive_read
  \/ nrf24_receive_return
  \/ rtc_set_time_from_payload_check
  \/ rtc_set_time_from_payload_set
  \/ nrf24_receive_date_time_rejected
  \/ nrf24_receive_date_time_timeout
  \/ nrf24_receive_date_time_count
  \/ nrf24_receive_date_time_return
  \/ setup_last_sync
  \/ loop

Spec == Init /\ [][Next]_vars


(* The control thread keeps running: some step of the program is
   eventually taken. *)
FairSpec == Spec /\ WF_vars(Next)

(* radio.read delivers a payload with a valid signature *)
ValidRead == nrf24_receive_read /\ SignatureOK(payload')

(* The server keeps broadcasting valid packets: again and again the radio
   reports data available and the read delivers a valid payload. *)
LiveSpec ==
  FairSpec /\ SF_vars(nrf24_receive_available) /\ SF_vars(ValidRead)

----------------------------------------------------------------------------
(* rtc_set_time_from_payload as a function of the payload: a sender encodes
   a date/time into the wire format, the payload is decoded and committed,
   then a payload altered in one place is decoded and committed again. *)

(* spec section 6: Year = (byte6 << 8 | byte5) - 1970, so the two year bytes
   carry 1970 + offset, low byte first; then Month .. Second, the raw
   weekday, and filler up to 32 bytes *)
Encode(f, wd, pad) ==
  LET y == (f.Year + 1970) % W16
      head == Signature \o <<y % 256, y \div 256, f.Month, f.Day, f.Hour,
                             f.Minute, f.Second, wd>>
  IN  [i \in 1..PayloadSize |-> IF i <= Len(head) THEN head[i] ELSE pad]

(* year offsets: the ends of the 8-bit range, just past it, and the
   largest one two year bytes can carry *)
YearOffsets == {0, 50, 53, 136, 255, 256, 1000, W16 - 1 - 1970}

Fields(y, mo, d, h, mi, s) ==
  [Year |-> y, Month |-> mo, Day |-> d, Hour |-> h, Minute |-> mi,
   Second |-> s]

(* for every year offset the first and the last second of the year and the
   time of the decoding example *)
FieldTuples ==
  UNION {{Fields(y, 1, 1, 0, 0, 0), Fields(y, 12, 31, 23, 59, 59),
          Fields(y, 7, 24, 10, 30, 0)} : y \in YearOffsets}

(* the payloads that differ from p in the high year byte only, in the
   weekday byte only, or in the filler only *)
HighYearVariants(p) == {[p EXCEPT ![7] = b] : b \in 0..255} \ {p}
WeekdayVariants(p) == {[p EXCEPT ![13] = b] : b \in 0..255} \ {p}
FillerVariants(p) ==
  {[p EXCEPT ![14] = 255], [p EXCEPT ![PayloadSize] = 1],
   [i \in 1..PayloadSize |-> IF i <= 13 THEN p[i] ELSE 170]} \ {p}

CodecInit ==
  /\ pc = "codec"
  /\ fields \in FieldTuples
  /\ listening = FALSE
  /\ payload = ZeroPayload
  /\ last_sync = U32(0)
  /\ rtc = InitialRtc
  /\ count = 0
  /\ started = U32(0)
  /\ timed_out = FALSE
  /\ result = FALSE
  /\ millis = U32(0)
  /\ tm = NoTm
  /\ rtc_result = NoTime
  /\ dt = NoTime
  /\ elapsed = 0
  /\ avail_seen = FALSE
  /\ reads = 0
  /\ rtc_sets = 0
  /\ timeouts = 0
  /\ rejects = 0
  /\ rtc_before = InitialRtc
  /\ sets_before = 0
  /\ buf_before = ZeroPayload
  /\ delayed = 0
  /\ failures = 0
  /\ flushed = FALSE

(* the sender's payload arrives in the buffer (radio.read, line 655) *)
codec_send ==
  /\ pc = "codec"
  /\ payload' = Encode(fields, 3, 0)
  /\ pc' = "decode"
  /\ UNCHANGED <<listening, last_sync, rtc, count, result, dt, rtc_sets,
                 rtc_before, sets_before, delayed>>
  /\ UNCHANGED <<recv_locals, decode_locals, hist, flush_hist, fields>>

(* after the first commit a payload altered in one place arrives; last_sync
   keeps the first commit, buf_before the first payload *)
codec_resend ==
  /\ pc = "accepted"
  /\ rtc_sets = 1
  /\ \E q \in HighYearVariants(payload) \cup WeekdayVariants(payload)
                \cup FillerVariants(payload) : payload' = q
  /\ buf_before' = payload
  /\ last_sync' = rtc
  /\ sets_before' = rtc_sets
  /\ rtc_before' = rtc
  /\ pc' = "decode"
  /\ UNCHANGED <<listening, rtc, count, result, dt, rtc_sets, delayed,
                 started, timed_out, millis, elapsed, avail_seen, reads>>
  /\ UNCHANGED <<decode_locals, hist, flush_hist, fields>>

CodecNext ==
  \/ codec_send
  \/ rtc_set_time_from_payload_check
  \/ rtc_set_time_from_payload_set
  \/ codec_resend

CodecSpec == CodecInit /\ [][CodecNext]_vars

----------------------------------------------------------------------------
(* The older sketch (src/unnamed/part_000): a 10-byte payload, signature
   "tim", the year high byte first, a 200 ms poll window; receiveDateTime
   returns the time and setup writes it to the RTC. *)

OldPayloadSize == 10
OldPollTimeout == 200
OldFlushEvery == 25

OldSignature == <<116, 105, 109>>

OldZeroPayload == [i \in 1..OldPayloadSize |-> 0]

(* "tim", year 2023 = 0x07E7 high byte first, 24 July 10:30:00 *)
Old2023Packet == <<116, 105, 109, 7, 231, 7, 24, 10, 30, 0>>

(* "tim", year 2020 = 0x07E4, 31 December 23:59:59 *)
Old2020Packet == <<116, 105, 109, 7, 228, 12, 31, 23, 59, 59>>

OldBadSigPacket(i) == [Old2023Packet EXCEPT ![i] = FlipBit(Old2023Packet[i])]

(* the first 10 bytes of a payload of the newer format *)
NewFormatPacket == [i \in 1..OldPayloadSize |-> ValidPacket[i]]

OldAirPackets ==
  {Old2023Packet, Old2020Packet, NewFormatPacket, OldZeroPayload}
    \cup {OldBadSigPacket(i) : i \in 1..Len(OldSignature)}

(* line 315 *)
OldSignatureOK(p) == p[1] = 116 /\ p[2] = 105 /\ p[3] = 109

(* the year read low byte first *)
OldYearFieldLittleEndian(p) == (((p[5] * 256 + p[4]) % W16) - 1970) % 256

(* line 319: tm.Year = (payload[3] << 8 | payload[4]) - 1970, in 8 bits *)
OldYearField(p) == (((p[4] * 256 + p[5]) % W16) - 1970) % 256

(* lines 319-324; tm.Wday is not assigned *)
OldExtractTm(p, t) ==
  [t EXCEPT !.Year = OldYearField(p), !.Month = p[6], !.Day = p[7],
            !.Hour = p[8], !.Minute = p[9], !.Second = p[10]]

(* the polling loop of the older sketch is observed at half the step *)
OldSteps == {d \div 2 : d \in Steps}

(* lines 642-645 of the newer sketch with the older window, line 302 *)
OldTimeoutPassed(now, start) == Gt32(Sub32(now, start), U32(OldPollTimeout))

old_unused ==
  <<last_sync, result, avail_seen, reads, rejects, timeouts, rtc_before,
    sets_before, buf_before, delayed, failures, fields>>

OldInit ==
  /\ pc = "old_setup"
  /\ listening = FALSE
  /\ payload = OldZeroPayload
  /\ last_sync = U32(0)
  /\ rtc = InitialRtc
  /\ count = 0
  /\ started = U32(0)
  /\ timed_out = FALSE
  /\ result = FALSE
  /\ millis = U32(0)
  /\ tm = NoTm
  /\ rtc_result = NoTime
  /\ dt = NoTime
  /\ elapsed = 0
  /\ avail_seen = FALSE
  /\ reads = 0
  /\ rtc_sets = 0
  /\ timeouts = 0
  /\ rejects = 0
  /\ rtc_before = InitialRtc
  /\ sets_before = 0
  /\ buf_before = ZeroPayload
  /\ delayed = 0
  /\ failures = 0
  /\ flushed = FALSE
  /\ fields = NoFields

(* setupDateTimeClient(), lines 261-278: ends with radio.stopListening() *)
setupDateTimeClient ==
  /\ pc = "old_setup"
  /\ listening' = FALSE
  /\ pc' = "old_call"
  /\ UNCHANGED <<payload, rtc, count, started, timed_out, millis, tm,
                 rtc_result, dt, elapsed, rtc_sets, flushed, old_unused>>

(* receiveDateTime(), lines 281-290: timeouts = 0 (kept in count),
   radio.startListening() once, before the loop *)
receiveDateTime_enter ==
  /\ pc = "old_call"
  /\ count' = 0
  /\ timed_out' = FALSE
  /\ listening' = TRUE
  /\ pc' = "old_loop_top"
  /\ UNCHANGED <<payload, rtc, started, millis, tm, rtc_result, dt, elapsed,
                 rtc_sets, flushed, old_unused>>

(* lines 296-297 *)
receiveDateTime_start ==
  /\ pc = "old_loop_top"
  /\ timed_out' = FALSE
  /\ \E s \in StartValues : started' = s /\ millis' = s
  /\ elapsed' = 0
  /\ flushed' = FALSE
  /\ pc' = "old_polling"
  /\ UNCHANGED <<listening, payload, rtc, count, tm, rtc_result, dt,
                 rtc_sets, old_unused>>

(* line 300: radio.available() is true *)
receiveDateTime_available ==
  /\ pc = "old_polling"
  /\ pc' = "old_read"
  /\ UNCHANGED <<listening, payload, rtc, count, started, timed_out, millis,
                 tm, rtc_result, dt, elapsed, rtc_sets, flushed, old_unused>>

(* lines 300-307: nothing available, d ms pass, the window is tested *)
receiveDateTime_wait(d) ==
  /\ pc = "old_polling"
  /\ millis' = Add32(millis, U32(d))
  /\ elapsed' = elapsed + d
  /\ IF OldTimeoutPassed(millis', started)
       THEN timed_out' = TRUE /\ pc' = "old_timeout"
       ELSE timed_out' = FALSE /\ pc' = "old_polling"
  /\ UNCHANGED <<listening, payload, rtc, count, started, tm, rtc_result,
                 dt, rtc_sets, flushed, old_unused>>

receiveDateTime_tick == \E d \in OldSteps : receiveDateTime_wait(d)

(* lines 309-312: radio.read(&payload, sizeof(payload)) *)
receiveDateTime_read ==
  /\ pc = "old_read"
  /\ \E p \in OldAirPackets : payload' = p
  /\ started' = U32(0)
  /\ millis' = U32(0)
  /\ elapsed' = 0
  /\ pc' = "old_check"
  /\ UNCHANGED <<listening, rtc, count, timed_out, tm, rtc_result, dt,
                 rtc_sets, flushed, old_unused>>

(* lines 315-338: signature test, then decode and return result (kept in
   rtc_result) to setup, or report and loop *)
receiveDateTime_check ==
  /\ pc = "old_check"
  /\ IF OldSignatureOK(payload)
       THEN /\ tm' = OldExtractTm(payload, tm)
            /\ rtc_result' = makeTime(tm')
            /\ pc' = "old_returned"
       ELSE /\ pc' = "old_loop_top"
            /\ UNCHANGED <<tm, rtc_result>>
  /\ UNCHANGED <<listening, payload, rtc, count, started, timed_out, millis,
                 dt, elapsed, rtc_sets, flushed, old_unused>>

(* lines 340-348: timeouts++, newline and reset at 25 *)
receiveDateTime_timeout ==
  /\ pc = "old_timeout"
  /\ count' = IF count + 1 >= OldFlushEvery THEN 0 ELSE count + 1
  /\ flushed' = (count + 1 >= OldFlushEvery)
  /\ started' = U32(0)
  /\ millis' = U32(0)
  /\ elapsed' = 0
  /\ pc' = "old_loop_top"
  /\ UNCHANGED <<listening, payload, rtc, timed_out, tm, rtc_result, dt,
                 rtc_sets, old_unused>>

(* setup, lines 223-227: the returned time is passed on,
   setupRTC(); updateRTCDateTime(dt) -> RTC.set(dt) *)
updateRTCDateTime ==
  /\ pc = "old_returned"
  /\ rtc' = rtc_result
  /\ rtc_sets' = Sat(rtc_sets)
  /\ pc' = "old_loop"
  /\ UNCHANGED <<listening, payload, count, started, timed_out, millis, tm,
                 rtc_result, dt, elapsed, flushed, old_unused>>

(* loop(), lines 230-241: dt = RTC.get() *)
old_loop ==
  /\ pc = "old_loop"
  /\ dt' = rtc
  /\ UNCHANGED <<pc, listening, payload, rtc, count, started, timed_out,
                 millis, tm, rtc_result, elapsed, rtc_sets, flushed,
                 old_unused>>

OldNext ==
  \/ setupDateTimeClient
  \/ receiveDateTime_enter
  \/ receiveDateTime_start
  \/ receiveDateTime_available
  \/ receiveDateTime_tick
  \/ receiveDateTime_read
  \/ receiveDateTime_check
  \/ receiveDateTime_timeout
  \/ updateRTCDateTime
  \/ old_loop

OldSpec == OldInit /\ [][OldNext]_vars

----------------------------------------------------------------------------
(* Properties *)

(* bytes 0..4 of a payload are 0xFE 'T' 'I' 'M' 'E' *)
HasSignature(p) == [i \in 1..Len(Signature) |-> p[i]] = Signature

InReceive == pc \in {"polling", "waited", "stop"}
SyncReturned == pc \in {"synced", "loop"}

(* C1: when nrf24_receive_date_time has returned, exactly one RTC.set has
   been performed, whatever number of timeouts and signature rejections
   came before. *)
C1_ExactlyOneSet == SyncReturned => rtc_sets = 1

(* a completed call that saw several timeouts and several rejections *)
C1_Witness ==
  pc = "synced" /\ timeouts = MaxHist /\ rejects = MaxHist /\ rtc_sets = 1

(* C2: an attempt that ended in a poll timeout or a signature mismatch has
   not called RTC.set: the RTC holds the value it held when the attempt
   started, and no tm or timestamp has been computed. *)
C2_FailedAttemptKeepsRtc ==
  pc \in {"timeout", "rejected", "count"} =>
    /\ rtc = rtc_before
    /\ rtc_sets = sets_before
    /\ tm = NoTm
    /\ rtc_result = NoTime

(* after a rejection, with timeouts before it *)
C2_Witness ==
  pc = "rejected" /\ ~HasSignature(payload) /\ timeouts >= 1 /\ rtc = InitialRtc

(* C3: rtc_set_time_from_payload returns true and commits exactly for the
   payloads whose bytes 0..4 are the signature; what follows the signature
   (Month = 13 included) plays no part. *)
C3_AcceptIffSignature ==
  /\ pc = "accepted" =>
       HasSignature(payload) /\ rtc_sets = sets_before + 1
         /\ rtc = rtc_result /\ rtc_result # NoTime
  /\ pc = "rejected" => ~HasSignature(payload) /\ rtc_sets = sets_before

(* the payload with Month = 13 accepted and committed *)
C3_Witness ==
  pc = "accepted" /\ payload = Month13Packet /\ tm.Month = 13 /\ rtc_sets = 1

(* C4: the radio listens exactly from the start of nrf24_receive to its
   stopListening; once nrf24_receive has returned, with a packet or with a
   timeout, and between any two polls, it is not listening. *)
C4_ListeningOnlyInReceive == listening <=> InReceive

(* back in the caller with a packet, after earlier polls that timed out *)
C4_Witness == pc = "decode" /\ ~listening /\ timeouts >= 1

(* C5: as long as no data is available, the timeout test of nrf24_receive
   agrees with the time really elapsed: the wait has timed out exactly when
   more than PollTimeout ms have elapsed since started was taken, also when
   the 32-bit counter has wrapped during the wait (neither early, nor
   waiting on past the wrap). *)
C5_TimeoutMatchesElapsed ==
  (pc \in {"polling", "waited"} /\ ~avail_seen) =>
    (timed_out <=> elapsed > PollTimeout)

(* a timeout detected after the counter wrapped: millis() is below started *)
C5_Witness ==
  pc = "waited" /\ timed_out /\ Gt32(started, millis) /\ elapsed > PollTimeout

(* C6: the wait of nrf24_receive(1000) always ends; when the radio has not
   reported data it ends in a timeout, detected when at least PollTimeout
   and at most PollTimeout plus one polling step have elapsed, and the
   call returns false. *)
C6_SilentPollTimesOut ==
  /\ [](pc = "polling" => <>(pc = "waited"))
  /\ []((pc = "waited" /\ ~avail_seen) =>
          /\ timed_out
          /\ elapsed >= PollTimeout
          /\ elapsed <= PollTimeout + MaxStep)
  /\ []((pc = "stop" /\ ~avail_seen) => ~result)

(* a timeout detected well after the 1000 ms boundary, within one step *)
C6_Witness ==
  pc = "waited" /\ ~avail_seen /\ timed_out /\ elapsed > PollTimeout + 1
    /\ elapsed <= PollTimeout + MaxStep

(* C7: when nrf24_receive is about to return, it has read exactly once and
   returns true if radio.available() was observed true before the timeout
   fired; otherwise it timed out, has not read, returns false and the
   payload buffer is what it was when the call started. *)
C7_ReadIffAvailable ==
  pc = "stop" =>
    /\ avail_seen <=> ~timed_out
    /\ avail_seen => (reads = 1 /\ result)
    /\ timed_out => (reads = 0 /\ ~result /\ payload = buf_before)

(* a timeout that leaves an earlier, rejected payload in the buffer *)
C7_Witness ==
  pc = "stop" /\ timed_out /\ reads = 0 /\ payload = OldFormatPacket

(* C8: the retry loop has no terminal failure state: after a timeout or a
   rejection the loop polls again, and nrf24_receive_date_time has
   returned only if a payload with a valid signature was decoded and
   committed. *)
C8_NoTerminalFailure ==
  /\ [](pc \in {"timeout", "rejected"} => <>(pc = "polling"))
  /\ [](SyncReturned => (HasSignature(payload) /\ tm # NoTm))

(* polling again after several timeouts and several rejections *)
C8_Witness ==
  pc = "polling" /\ timeouts = MaxHist /\ rejects = MaxHist /\ rtc_sets = 0

(* C9: if the server keeps broadcasting valid packets, setup gets past
   nrf24_receive_date_time; the first payload with a valid signature that a
   poll delivers ends the loop: no new poll starts while the buffer holds
   a valid payload. *)
C9_FirstValidPacketEndsLoop ==
  /\ <>(pc = "loop")
  /\ [](HasSignature(payload) =>
          pc \in {"stop", "decode", "rtc_set", "accepted", "synced", "loop"})

(* the first valid payload, just read, after failed attempts *)
C9_Witness ==
  pc = "stop" /\ result /\ HasSignature(payload) /\ rejects >= 1
    /\ timeouts >= 1 /\ rtc_sets = 0

(* C10: the commit is ordered: RTC.set(result) is the step right after the
   successful signature check and writes the decoded timestamp;
   nrf24_receive_date_time returns only after it, and last_sync is taken
   from the RTC after the commit. *)
C10_CommitOrdered ==
  [][/\ pc' = "rtc_set" => (pc = "decode" /\ rtc_result' = makeTime(ExtractTm(payload)))
     /\ pc = "rtc_set" => (pc' = "accepted" /\ rtc' = rtc_result)
     /\ pc' = "synced" => (pc = "accepted" /\ rtc_sets = 1 /\ rtc = rtc_result)
     /\ pc' = "loop" => (rtc_sets = 1 /\ last_sync' = rtc_result)]_vars

(* setup finished: last_sync is the committed timestamp *)
C10_Witness ==
  pc = "loop" /\ last_sync = rtc_result /\ last_sync # InitialRtc
    /\ rtc_sets = 1 /\ rejects >= 1

(* 2020-07-24 10:30:00 UTC and 2098-07-24 10:30:00 UTC in epoch seconds *)
Epoch2020_07_24 == U32(1595586600)
Epoch2098_07_24 == <<61905, 30120>>

ExampleTm(y) ==
  [Year |-> y, Month |-> 7, Day |-> 24, Hour |-> 10, Minute |-> 30,
   Second |-> 0, Wday |-> 4]

(* C11 as stated: the payload with year bytes 0x32, 0x00 decodes to year
   offset 50 and commits 2020-07-24 10:30:00 UTC. *)
C11_Original ==
  (pc = "accepted" /\ payload = OffsetPacket) =>
    (tm = ExampleTm(50) /\ rtc = Epoch2020_07_24)

(* C11: the year bytes carry the calendar year.  With year bytes
   0xE4, 0x07 (2020, low byte first) the payload decodes to year offset 50,
   Month 7, Day 24, 10:30:00, Weekday 4 and commits 2020-07-24 10:30:00
   UTC; with year bytes 0x32, 0x00 the stored offset is
   (50 - 1970) mod 256 = 128 and the commit is 2098-07-24 10:30:00 UTC. *)
C11_DecodesExample ==
  /\ (pc = "accepted" /\ payload = ValidPacket) =>
       (tm = ExampleTm(50) /\ rtc = Epoch2020_07_24)
  /\ (pc = "accepted" /\ payload = OffsetPacket) =>
       (tm = ExampleTm(128) /\ rtc = Epoch2098_07_24)

(* the example payload with year bytes 0xE4, 0x07 committed *)
C11_Witness ==
  pc = "accepted" /\ payload = ValidPacket /\ rtc_sets = 1
    /\ rtc = Epoch2020_07_24
(* the six date/time fields of a decoded tm *)
SixFields(t) ==
  Fields(t.Year, t.Month, t.Day, t.Hour, t.Minute, t.Second)

(* the first payload of a codec run has been decoded and committed *)
FirstCommit == pc = "accepted" /\ rtc_sets = 1

(* C12 as stated: for every year offset in 0..65535, encoding the fields
   into the wire format and decoding them gives the same six fields back. *)
C12_Original == FirstCommit => SixFields(tm) = fields

(* C12: for a year offset in 0..255, month 1..12, day 1..31, hour 0..23,
   minute and second 0..59, encoding the fields into the wire format and
   decoding with rtc_set_time_from_payload gives the same six fields back,
   and the timestamp committed is makeTime of those fields; for a larger
   offset only its low 8 bits come back. *)
C12_RoundTrip ==
  FirstCommit =>
    /\ SixFields(tm) = [fields EXCEPT !.Year = fields.Year % 256]
    /\ fields.Year <= 255 =>
         /\ SixFields(tm) = fields
         /\ rtc = makeTime(Fields(fields.Year, fields.Month, fields.Day,
                                  fields.Hour, fields.Minute, fields.Second))

C12_Witness ==
  /\ FirstCommit
  /\ fields = Fields(255, 12, 31, 23, 59, 59)
  /\ SixFields(tm) = fields
(* a payload has been decoded into tm *)
Decoded == pc \in {"rtc_set", "accepted"}

(* C13: for every raw weekday byte r in 0..255 the decoded weekday is
   r % 7 + 1, a value in 1..7; raw 0 gives 1, 6 gives 7, 7 gives 1,
   13 gives 7 and 255 gives 4. *)
C13_WeekdayNormalised ==
  Decoded =>
    /\ tm.Wday = (payload[13] % 7) + 1
    /\ tm.Wday \in 1..7
    /\ payload[13] = 0 => tm.Wday = 1
    /\ payload[13] = 6 => tm.Wday = 7
    /\ payload[13] = 7 => tm.Wday = 1
    /\ payload[13] = 13 => tm.Wday = 7
    /\ payload[13] = 255 => tm.Wday = 4

C13_Witness == pc = "accepted" /\ payload[13] = 255 /\ tm.Wday = 4
OldFieldsFrom(p) ==
  /\ tm'.Year = ((p[4] * 256 + p[5]) - 1970) % 256
  /\ tm'.Month = p[6]
  /\ tm'.Day = p[7]
  /\ tm'.Hour = p[8]
  /\ tm'.Minute = p[9]
  /\ tm'.Second = p[10]

(* C14: in the older 10-byte variant receiveDateTime accepts a payload
   exactly when bytes 0..2 are 't','i','m'; it then reads the year high
   byte first from bytes 3 and 4 and Month..Second from bytes 5..9, so year
   bytes encoding 2023 give the offset 53 from 1970; any other payload is
   not decoded and the loop goes on. *)
C14_OldVariantDecode ==
  [][pc = "old_check" =>
       IF <<payload[1], payload[2], payload[3]>> = <<116, 105, 109>>
         THEN /\ pc' = "old_returned"
              /\ OldFieldsFrom(payload)
              /\ payload[4] * 256 + payload[5] = 2023 =>
                   tm'.Year = 53 /\ 1970 + tm'.Year = 2023
              /\ rtc_result' = makeTime(tm')
         ELSE /\ pc' = "old_loop_top"
              /\ UNCHANGED <<tm, rtc_result, rtc>>]_vars

C14_Witness ==
  /\ pc = "old_returned"
  /\ payload = Old2023Packet
  /\ tm.Year = 53
  /\ tm.Month = 7 /\ tm.Day = 24 /\ tm.Hour = 10 /\ tm.Minute = 30
(* C15 as stated: after a poll timeout no time passes between the end of
   that poll and the start of the next one. *)
C15_Original == [][pc = "timeout" => delayed' = delayed]_vars

(* C15: after a poll timeout the radio has stopped listening and exactly
   100 ms of flash_led delay pass before the next poll; counting the failure
   takes no time, and the next step after it is nrf24_receive, which starts
   listening again. *)
C15_PauseAfterTimeout ==
  [][/\ pc = "timeout" =>
          /\ ~listening /\ ~listening'
          /\ delayed = 0 /\ delayed' = 100
          /\ pc' = "count"
     /\ pc = "count" =>
          /\ ~listening' /\ delayed' = delayed /\ pc' = "loop_top"
     /\ pc = "loop_top" =>
          /\ listening' /\ delayed' = delayed /\ pc' = "polling"]_vars

C15_Witness ==
  pc = "polling" /\ listening /\ delayed = 100 /\ timeouts > 0 /\ rejects = 0
(* C16: the newline is emitted exactly when the number of failed attempts
   since nrf24_receive_date_time started reaches a positive multiple of 30;
   the counter is in 0..29 at the start of every loop iteration; and whatever
   the counter holds, a counted failure is followed by the next iteration,
   which polls again, with the payload, the RTC and last_sync untouched. *)
C16_FlushEveryThirty ==
  [][/\ pc = "loop_top" =>
          /\ count \in 0..29
          /\ count = failures % 30
          /\ pc' = "polling"
     /\ pc = "count" =>
          /\ failures' = (failures + 1) % FailMod
          /\ flushed' <=> (failures' % 30 = 0)
          /\ pc' = "loop_top"
          /\ UNCHANGED <<payload, rtc, rtc_sets, last_sync, listening>>]_vars

C16_Witness ==
  pc = "loop_top" /\ flushed /\ failures = 30 /\ count = 0 /\ rtc_sets = 0
(* C17: a timeout and a rejected payload are handled alike: 100 ms of LED
   flashing pass, the failure counter goes up by exactly one, and the next
   step is another nrf24_receive with a fresh 1000 ms window. *)
C17_SameRetryPath ==
  [][/\ pc \in {"timeout", "rejected"} =>
          /\ delayed = 0 /\ delayed' = 100
          /\ UNCHANGED <<count, failures, rtc, payload>>
          /\ pc' = "count"
     /\ pc = "count" =>
          /\ failures' = (failures + 1) % FailMod
          /\ count' = (count + 1) % 30
          /\ delayed' = delayed
          /\ pc' = "loop_top"
     /\ pc = "loop_top" =>
          /\ pc' = "polling"
          /\ listening' /\ ~timed_out' /\ elapsed' = 0
          /\ millis' = started']_vars

C17_Witness ==
  /\ pc = "polling"
  /\ timeouts = 1 /\ rejects = 1
  /\ failures = 2 /\ count = 2
  /\ delayed = 100
(* C18: in the older variant, whenever receiveDateTime has returned the
   decoded time to setup, the radio is no longer listening. *)
C18_OldStopsListening ==
  pc \in {"old_returned", "old_loop"} => ~listening
(* a second payload has been decoded and committed; buf_before is the
   first payload and last_sync the timestamp it committed *)
SecondCommit == pc = "accepted" /\ rtc_sets = 2

(* the bytes (counted from 1) at which two payloads differ *)
DiffersAt(p, q) == {i \in 1..PayloadSize : p[i] # q[i]}

(* C19: the year offset stored in tm.Year is (payload[5] - 1970) mod 256
   whatever payload[6] holds, and two valid payloads that differ only in the
   high year byte commit the same timestamp. *)
C19_YearLowByteOnly ==
  /\ Decoded => tm.Year = (payload[6] - 1970) % 256
  /\ (SecondCommit /\ DiffersAt(payload, buf_before) = {7}) => rtc = last_sync

C19_Witness ==
  /\ SecondCommit
  /\ DiffersAt(payload, buf_before) = {7}
  /\ payload[7] = 255 /\ buf_before[7] = 7
  /\ tm.Year = 50
  /\ rtc = last_sync

(* C20: the committed timestamp depends on payload bytes 5..11 only: two
   payloads with a valid signature that agree on bytes 0..11 and differ in
   the weekday byte 12 or in the filler bytes 13..31 pass the same value to
   RTC.set. *)
C20_WeekdayAndFillerIgnored ==
  (SecondCommit /\ DiffersAt(payload, buf_before) \subseteq 13..PayloadSize)
    => (rtc = last_sync /\ rtc_result = last_sync)

C20_Witness ==
  /\ SecondCommit
  /\ DiffersAt(payload, buf_before) = 14..PayloadSize
  /\ rtc = last_sync
(* C21: rtc_set_time_from_payload is entered only from an nrf24_receive
   that returned true, that is after exactly one radio.read filled the
   buffer in that call; a poll that timed out read nothing, leaves the buffer
   as it was and goes to the timeout branch, so neither the initial buffer
   nor one left from an earlier iteration is decoded or committed; and the
   buffer decoded is the buffer read. *)
C21_DecodeOnlyAfterRead ==
  [][/\ (pc' = "decode" /\ pc # "decode") =>
          /\ pc = "stop" /\ result /\ ~timed_out
          /\ reads = 1 /\ avail_seen
          /\ payload' = payload
     /\ (pc = "stop" /\ reads = 0) =>
          /\ ~result /\ payload = buf_before
          /\ pc' = "timeout"
          /\ UNCHANGED <<payload, tm, rtc_result, rtc, rtc_sets>>
     /\ pc \in {"decode", "rtc_set"} => payload' = payload
     /\ rtc_sets' # rtc_sets => pc = "rtc_set"]_vars

(* a timed-out poll that found a rejected payload left in the buffer *)
C21_Witness ==
  /\ pc = "timeout"
  /\ rejects = 1
  /\ payload = OldFormatPacket
  /\ rtc_sets = 0 /\ tm = NoTm
(* C22: radio.available() and radio.read() run only while the radio
   listens: the availability checks and the read lie between the
   startListening and the stopListening of one nrf24_receive; startListening
   is called only when the radio does not listen and stopListening, after the
   one in nrf24_setup, only when it does, so the two alternate; no other step
   changes the mode. *)
C22_RadioUsedWhileListening ==
  [][/\ pc \in {"polling", "waited"} => (listening /\ listening')
     /\ payload' # payload => (pc = "waited" /\ listening /\ ~timed_out)
     /\ pc = "setup" => ~listening'
     /\ pc = "loop_top" => (~listening /\ listening')
     /\ pc = "stop" => (listening /\ ~listening')
     /\ pc \notin {"setup", "loop_top", "stop"} => listening' = listening]_vars

(* the second poll has read a payload and not yet stopped listening *)
C22_Witness ==
  pc = "stop" /\ listening /\ reads = 1 /\ result /\ timeouts = 1
(* C23: once setup has finished, loop() only reads the RTC: it leaves the
   RTC, the radio, the payload and last_sync as they are and stays in loop();
   over the whole run RTC.set is called at most once, and last_sync is
   assigned in one place only, the step of setup that follows the return of
   nrf24_receive_date_time, there taking the committed time. *)
C23_LoopLeavesStateAlone ==
  [][/\ pc = "loop" =>
          /\ UNCHANGED <<rtc, rtc_sets, listening, payload, last_sync, pc>>
          /\ rtc_sets = 1 /\ last_sync = rtc /\ ~listening
     /\ rtc_sets' <= 1
     /\ pc = "synced" =>
          /\ rtc_sets = 1 /\ last_sync = U32(0)
          /\ last_sync' = rtc /\ rtc = rtc_result
          /\ pc' = "loop"
     /\ pc # "synced" => last_sync' = last_sync
     /\ pc' = "synced" => pc \in {"accepted", "synced"}]_vars

(* loop() has run at least once after the sync *)
C23_Witness ==
  /\ pc = "loop"
  /\ dt = rtc /\ last_sync = rtc
  /\ rtc_sets = 1
  /\ rtc = Epoch2020_07_24

====
